---------------------------- MODULE Spec2Model ----------------------------
(***************************************************************************)
(* Rescue robot: the grid simulator (simulator/simulator.py), the hardware *)
(* interface with its audit log (robot/hardware.py, robot/logger.py), the  *)
(* return planner (algorithms/returner.py) and the return/eject part of    *)
(* the controller (controller/controller.py).                              *)
(*                                                                         *)
(* Positions are (x, y) pairs, 0-based as in the code; the grid is a       *)
(* sequence of rows indexed [y][x], so cell (x, y) is grid[y+1][x+1].      *)
(* Headings: 0=N, 1=E, 2=S, 3=W.                                           *)
(***************************************************************************)
EXTENDS Integers, Sequences, FiniteSets, TLC

VARIABLES
    grid,               \* Simulator.grid (working grid)
    pos, dir, carga,    \* HardwareInterface.pos / .dir / .carga
    log,                \* lines written by Logger.log, in order
    memory,             \* RobotController.memory (command history)
    returner_memory,    \* Returner.memory (its own copy of the history)
    state,              \* RobotController.state
    op,                 \* kind of the last step taken
    lastCmd,            \* command of the last send_command call
    result,             \* outcome of the last send_command call
    find_alt_mocked,    \* _find_alternative_path replaced by the test's mock
    steps,              \* _explore_for_human: steps
    remaining_steps,    \* plan_return: remaining_steps
    i,                  \* plan_return: loop index into remaining_steps (1-based)
    return_commands,    \* plan_return: return_commands / the returned plan
    reads,              \* sensor reads made by plan_return: <<i, pos, dir, reading>>
    k,                  \* _execute_return: index of the next plan command (1-based)
    pc,                 \* where RobotController.run stands
    caller,             \* who called plan_return: "run" or "execute_return"
    executed,           \* Returner.execute_return: executed
    status              \* value returned by RobotController.run, as
                        \* <<prefix, wrapper message, exception>>

vars == <<grid, pos, dir, carga, log, memory, returner_memory, state, op, lastCmd, result,
          find_alt_mocked, steps, remaining_steps, i, return_commands, reads, k,
          pc, caller, executed, status>>

---------------------------------------------------------------------------
(* Bounds of the model *)

\* longest command history recorded before the return starts
MaxHist == 6

\* how many cells beyond the grid border the driver lets the robot walk
MaxOut == 1

---------------------------------------------------------------------------
(* Maps accepted by load_map: rectangular, exactly one E on the border,    *)
(* exactly one @.                                                          *)

MapCorridor == << <<"X","X","X","X">>,
                  <<"E",".","@","X">>,
                  <<"X","X","X","X">> >>

MapPocket == << <<"X","X","X">>,
                <<"E","@","X">>,
                <<"X","X","X">> >>

MapRow == << <<".","@","E">> >>

MapTop == << <<"X","E","X">>,
             <<".",".","@">>,
             <<"X",".","X">> >>

MapBottomRight == << <<"@",".">>,
                     <<"X","E">> >>

MapRight == << <<"X","X","X">>,
              <<"@",".","E">>,
              <<"X",".","X">> >>

MapColumn == << <<"E">>,
                <<"@">> >>

\* a pocket, (3,1), reachable only through the victim's cell
MapEnclosed == << <<"X","X","X","X","X">>,
                 <<"E",".","@",".","X">>,
                 <<"X","X","X","X","X">> >>

Maps == {MapCorridor, MapPocket, MapRow, MapTop, MapBottomRight, MapRight,
         MapColumn, MapEnclosed}

---------------------------------------------------------------------------
(* simulator/simulator.py *)

Height(g) == Len(g)
Width(g) == IF Len(g) > 0 THEN Len(g[1]) ELSE 0

Cell(g, p) == g[p[2] + 1][p[1] + 1]

\* Outcomes of apply_command: "OK" or the exception raised
OK == "OK"
CollisionError == "CollisionError"
AtropelamentoError == "AtropelamentoError"
InvalidPickupError == "InvalidPickupError"
EjectSemCarga == "InvalidEjectError: Robo nao possui carga para ejetar"
EjectForaDaEntrada == "InvalidEjectError: Robo deve estar na entrada para ejetar"
EjectNaoDeFrente == "InvalidEjectError: Robo nao esta de frente para a saida"
ComandoInvalido == "ValueError: Comando invalido"
EntradaNaoEncontrada == "ValueError: Entrada 'E' nao encontrada no grid"

RobotState(p, d, c) == [pos |-> p, dir |-> d, carga |-> c]

\* Row-major scan for 'E'; <<>> stands for the ValueError of line 59
find_entry(g) ==
    LET found == {p \in (0..Width(g) - 1) \X (0..Height(g) - 1) : Cell(g, p) = "E"}
    IN  IF found = {} THEN <<>>
        ELSE CHOOSE p \in found :
                \A q \in found : p[2] < q[2] \/ (p[2] = q[2] /\ p[1] <= q[1])

get_adjacent_pos(p, direction) ==
    CASE direction = 0 -> <<p[1], p[2] - 1>>
      [] direction = 1 -> <<p[1] + 1, p[2]>>
      [] direction = 2 -> <<p[1], p[2] + 1>>
      [] direction = 3 -> <<p[1] - 1, p[2]>>

is_position_valid(g, p) ==
    0 <= p[1] /\ p[1] < Width(g) /\ 0 <= p[2] /\ p[2] < Height(g)

get_cell_content(g, p) ==
    IF ~is_position_valid(g, p) THEN "VAZIO"
    ELSE IF Cell(g, p) = "X" THEN "PAREDE"
    ELSE IF Cell(g, p) = "@" THEN "HUMANO"
    ELSE "VAZIO"

\* readings with the two sides exchanged
get_sensor_readings_swapped(g, p, d) ==
    << get_cell_content(g, get_adjacent_pos(p, (d + 1) % 4)),
       get_cell_content(g, get_adjacent_pos(p, (d - 1) % 4)),
       get_cell_content(g, get_adjacent_pos(p, d)) >>

\* (left, right, front)
get_sensor_readings(g, p, d) ==
    LET left_dir == (d - 1) % 4
        right_dir == (d + 1) % 4
        front_dir == d
    IN  << get_cell_content(g, get_adjacent_pos(p, left_dir)),
           get_cell_content(g, get_adjacent_pos(p, right_dir)),
           get_cell_content(g, get_adjacent_pos(p, front_dir)) >>

\* The result of one apply_command call: err is "OK" or the exception;
\* st is new_state; g is Simulator.grid when the call ends.
Outcome(e, st, g) == [err |-> e, state |-> st, grid |-> g]

\* advance without the wall test
advance_through_wall(g, st) ==
    LET front_pos == get_adjacent_pos(st.pos, st.dir)
    IN  IF ~is_position_valid(g, front_pos)
        THEN Outcome(OK, [st EXCEPT !.pos = front_pos], g)
        ELSE IF Cell(g, front_pos) = "@" /\ ~st.carga
             THEN Outcome(AtropelamentoError, st, g)
        ELSE Outcome(OK, [st EXCEPT !.pos = front_pos], g)

\* advance that lets the robot leave the grid but not walk on outside it
advance_one_step_out(g, st) ==
    LET front_pos == get_adjacent_pos(st.pos, st.dir)
    IN  IF ~is_position_valid(g, front_pos)
        THEN IF is_position_valid(g, st.pos)
             THEN Outcome(OK, [st EXCEPT !.pos = front_pos], g)
             ELSE Outcome(CollisionError, st, g)
        ELSE IF Cell(g, front_pos) = "X"
             THEN Outcome(CollisionError, st, g)
        ELSE IF Cell(g, front_pos) = "@" /\ ~st.carga
             THEN Outcome(AtropelamentoError, st, g)
        ELSE Outcome(OK, [st EXCEPT !.pos = front_pos], g)

\* advance that never enters the victim's cell, cargo or not
advance_never_over_victim(g, st) ==
    LET front_pos == get_adjacent_pos(st.pos, st.dir)
    IN  IF ~is_position_valid(g, front_pos)
        THEN Outcome(OK, [st EXCEPT !.pos = front_pos], g)
        ELSE IF Cell(g, front_pos) = "X"
             THEN Outcome(CollisionError, st, g)
        ELSE IF Cell(g, front_pos) = "@"
             THEN Outcome(AtropelamentoError, st, g)
        ELSE Outcome(OK, [st EXCEPT !.pos = front_pos], g)

\* advance that loses the cargo when it leaves the grid
advance_drops_cargo(g, st) ==
    LET front_pos == get_adjacent_pos(st.pos, st.dir)
    IN  IF ~is_position_valid(g, front_pos)
        THEN Outcome(OK, [st EXCEPT !.pos = front_pos, !.carga = FALSE], g)
        ELSE IF Cell(g, front_pos) = "X"
             THEN Outcome(CollisionError, st, g)
        ELSE IF Cell(g, front_pos) = "@" /\ ~st.carga
             THEN Outcome(AtropelamentoError, st, g)
        ELSE Outcome(OK, [st EXCEPT !.pos = front_pos], g)

\* advance that enters only '.' cells: the entry cell stops it like a wall
advance_only_free(g, st) ==
    LET front_pos == get_adjacent_pos(st.pos, st.dir)
    IN  IF ~is_position_valid(g, front_pos)
        THEN Outcome(OK, [st EXCEPT !.pos = front_pos], g)
        ELSE IF Cell(g, front_pos) \in {"X", "E"}
             THEN Outcome(CollisionError, st, g)
        ELSE IF Cell(g, front_pos) = "@" /\ ~st.carga
             THEN Outcome(AtropelamentoError, st, g)
        ELSE Outcome(OK, [st EXCEPT !.pos = front_pos], g)

\* advance that marks the cell it enters as '.'
advance_marks_cell(g, st) ==
    LET front_pos == get_adjacent_pos(st.pos, st.dir)
    IN  IF ~is_position_valid(g, front_pos)
        THEN Outcome(OK, [st EXCEPT !.pos = front_pos], g)
        ELSE IF Cell(g, front_pos) = "X"
             THEN Outcome(CollisionError, st, g)
        ELSE IF Cell(g, front_pos) = "@" /\ ~st.carga
             THEN Outcome(AtropelamentoError, st, g)
        ELSE Outcome(OK, [st EXCEPT !.pos = front_pos],
                     [g EXCEPT ![front_pos[2] + 1][front_pos[1] + 1] = "."])

\* command == 'A'
advance(g, st) ==
    LET front_pos == get_adjacent_pos(st.pos, st.dir)
    IN  IF ~is_position_valid(g, front_pos)
        THEN Outcome(OK, [st EXCEPT !.pos = front_pos], g)
        ELSE IF Cell(g, front_pos) = "X"
             THEN Outcome(CollisionError, st, g)
        ELSE IF Cell(g, front_pos) = "@" /\ ~st.carga
             THEN Outcome(AtropelamentoError, st, g)
        ELSE Outcome(OK, [st EXCEPT !.pos = front_pos], g)

\* turn without the modulo
turn_no_wrap(g, st) == Outcome(OK, [st EXCEPT !.dir = st.dir + 1], g)

\* turn to the left instead of the right
turn_left(g, st) == Outcome(OK, [st EXCEPT !.dir = (st.dir - 1) % 4], g)

\* command == 'G'
turn(g, st) == Outcome(OK, [st EXCEPT !.dir = (st.dir + 1) % 4], g)

\* pickup that leaves the victim on the grid
pickup_keeps_victim(g, st) ==
    LET front_pos == get_adjacent_pos(st.pos, st.dir)
    IN  IF ~is_position_valid(g, front_pos)
        THEN Outcome(InvalidPickupError, st, g)
        ELSE IF Cell(g, front_pos) # "@"
             THEN Outcome(InvalidPickupError, st, g)
        ELSE Outcome(OK, [st EXCEPT !.carga = TRUE], g)

\* pickup that succeeds again, changing nothing, when the robot carries
pickup_idempotent(g, st) ==
    LET front_pos == get_adjacent_pos(st.pos, st.dir)
    IN  IF st.carga THEN Outcome(OK, st, g)
        ELSE IF ~is_position_valid(g, front_pos)
        THEN Outcome(InvalidPickupError, st, g)
        ELSE IF Cell(g, front_pos) # "@"
             THEN Outcome(InvalidPickupError, st, g)
        ELSE Outcome(OK, [st EXCEPT !.carga = TRUE],
                     [g EXCEPT ![front_pos[2] + 1][front_pos[1] + 1] = "."])

\* pickup that writes '.' into the working grid before testing the cell
pickup_writes_first(g, st) ==
    LET front_pos == get_adjacent_pos(st.pos, st.dir)
        cleared == [g EXCEPT ![front_pos[2] + 1][front_pos[1] + 1] = "."]
    IN  IF ~is_position_valid(g, front_pos)
        THEN Outcome(InvalidPickupError, st, g)
        ELSE IF Cell(g, front_pos) # "@"
             THEN Outcome(InvalidPickupError, st, cleared)
        ELSE Outcome(OK, [st EXCEPT !.carga = TRUE], cleared)

\* command == 'P'
pickup(g, st) ==
    LET front_pos == get_adjacent_pos(st.pos, st.dir)
    IN  IF ~is_position_valid(g, front_pos)
        THEN Outcome(InvalidPickupError, st, g)
        ELSE IF Cell(g, front_pos) # "@"
             THEN Outcome(InvalidPickupError, st, g)
        ELSE Outcome(OK, [st EXCEPT !.carga = TRUE],
                     [g EXCEPT ![front_pos[2] + 1][front_pos[1] + 1] = "."])

\* an Eject that does not look at the heading
eject_any_heading(g, st) ==
    IF ~st.carga THEN Outcome(EjectSemCarga, st, g)
    ELSE IF find_entry(g) = <<>> THEN Outcome(EntradaNaoEncontrada, st, g)
    ELSE IF st.pos # find_entry(g) THEN Outcome(EjectForaDaEntrada, st, g)
    ELSE Outcome(OK, [st EXCEPT !.carga = FALSE], g)

\* eject that tests the entry position before the cargo
eject_entry_first(g, st) ==
    IF find_entry(g) = <<>> THEN Outcome(EntradaNaoEncontrada, st, g)
    ELSE IF st.pos # find_entry(g) THEN Outcome(EjectForaDaEntrada, st, g)
    ELSE IF ~st.carga THEN Outcome(EjectSemCarga, st, g)
    ELSE IF is_position_valid(g, get_adjacent_pos(st.pos, st.dir))
         THEN Outcome(EjectNaoDeFrente, st, g)
    ELSE Outcome(OK, [st EXCEPT !.carga = FALSE], g)

\* command == 'E'
eject(g, st) ==
    IF ~st.carga THEN Outcome(EjectSemCarga, st, g)
    ELSE IF find_entry(g) = <<>> THEN Outcome(EntradaNaoEncontrada, st, g)
    ELSE IF st.pos # find_entry(g) THEN Outcome(EjectForaDaEntrada, st, g)
    ELSE IF is_position_valid(g, get_adjacent_pos(st.pos, st.dir))
         THEN Outcome(EjectNaoDeFrente, st, g)
    ELSE Outcome(OK, [st EXCEPT !.carga = FALSE], g)

\* an apply_command that takes an unknown symbol for a command without effect
apply_command_accepts_unknown(g, st, command) ==
    CASE command = "A" -> advance(g, st)
      [] command = "G" -> turn(g, st)
      [] command = "P" -> pickup(g, st)
      [] command = "E" -> eject(g, st)
      [] OTHER -> Outcome(OK, st, g)

apply_command(g, st, command) ==
    CASE command = "A" -> advance(g, st)
      [] command = "G" -> turn(g, st)
      [] command = "P" -> pickup(g, st)
      [] command = "E" -> eject(g, st)
      [] OTHER -> Outcome(ComandoInvalido, st, g)

---------------------------------------------------------------------------
(* robot/logger.py, robot/hardware.py *)

\* One CSV line: command,left,right,front,carga_str
LogLine(command, left, right, front, carga_bool) ==
    <<command, left, right, front,
      IF carga_bool THEN "COM HUMANO" ELSE "SEM CARGA">>

\* an initial heading that looks at the left and right borders first
initial_dir_sides_first(g) ==
    LET e == find_entry(g)
    IN  IF e[1] = 0 THEN 1
        ELSE IF e[1] = Width(g) - 1 THEN 3
        ELSE IF e[2] = 0 THEN 2
        ELSE IF e[2] = Height(g) - 1 THEN 0
        ELSE -1

\* HardwareInterface.__init__: heading from the entry's border
initial_dir(g) ==
    LET e == find_entry(g)
    IN  IF e[2] = 0 THEN 2
        ELSE IF e[2] = Height(g) - 1 THEN 0
        ELSE IF e[1] = 0 THEN 1
        ELSE IF e[1] = Width(g) - 1 THEN 3
        ELSE -1

read_sensors == get_sensor_readings(grid, pos, dir)

\* a send_command that writes its log line whether the command succeeds or not
send_command_logs_failures(cmd) ==
    LET r == apply_command(grid, RobotState(pos, dir, carga), cmd)
    IN  /\ grid' = r.grid
        /\ result' = r.err
        /\ lastCmd' = cmd
        /\ op' = "send"
        /\ LET s == get_sensor_readings(r.grid, r.state.pos, r.state.dir)
           IN  log' = Append(log, LogLine(cmd, s[1], s[2], s[3], r.state.carga))
        /\ IF r.err = OK
           THEN /\ pos' = r.state.pos
                /\ dir' = r.state.dir
                /\ carga' = r.state.carga
           ELSE UNCHANGED <<pos, dir, carga>>

\* HardwareInterface.send_command(cmd): the hardware fields, the simulator's
\* grid and the log after the call; result' is what the caller sees.
send_command(cmd) ==
    LET r == apply_command(grid, RobotState(pos, dir, carga), cmd)
    IN  /\ grid' = r.grid
        /\ result' = r.err
        /\ lastCmd' = cmd
        /\ op' = "send"
        /\ IF r.err = OK
           THEN /\ pos' = r.state.pos
                /\ dir' = r.state.dir
                /\ carga' = r.state.carga
                /\ LET s == get_sensor_readings(r.grid, r.state.pos, r.state.dir)
                   IN  log' = Append(log, LogLine(cmd, s[1], s[2], s[3], r.state.carga))
           ELSE UNCHANGED <<pos, dir, carga, log>>

---------------------------------------------------------------------------
(* algorithms/returner.py *)

\* _invert_commands: walk the history from its last command to its first,
\* extending the accumulator
RECURSIVE invert_loop(_, _, _)
invert_loop(commands, n, inverted) ==
    IF n = 0 THEN inverted
    ELSE LET command == commands[n]
         IN  invert_loop(commands, n - 1,
                 IF command = "A" THEN inverted \o <<"G", "G", "A", "G", "G">>
                 ELSE IF command = "G" THEN inverted \o <<"G", "G", "G">>
                 ELSE inverted)

\* inversion that walks the history from its first command to its last
RECURSIVE invert_forward_loop(_, _, _)
invert_forward_loop(commands, n, inverted) ==
    IF n > Len(commands) THEN inverted
    ELSE LET command == commands[n]
         IN  invert_forward_loop(commands, n + 1,
                 IF command = "A" THEN inverted \o <<"G", "G", "A", "G", "G">>
                 ELSE IF command = "G" THEN inverted \o <<"G", "G", "G">>
                 ELSE inverted)

invert_commands_forward(commands) == invert_forward_loop(commands, 1, <<>>)

\* inversion that hands a Pickup or an Eject of the history on as it is
RECURSIVE invert_keeps_loop(_, _, _)
invert_keeps_loop(commands, n, inverted) ==
    IF n = 0 THEN inverted
    ELSE LET command == commands[n]
         IN  invert_keeps_loop(commands, n - 1,
                 IF command = "A" THEN inverted \o <<"G", "G", "A", "G", "G">>
                 ELSE IF command = "G" THEN inverted \o <<"G", "G", "G">>
                 ELSE inverted \o <<command>>)

invert_commands_keeps(commands) ==
    invert_keeps_loop(commands, Len(commands), <<>>)

\* inversion that undoes a turn with a single turn
RECURSIVE invert_one_turn_loop(_, _, _)
invert_one_turn_loop(commands, n, inverted) ==
    IF n = 0 THEN inverted
    ELSE LET command == commands[n]
         IN  invert_one_turn_loop(commands, n - 1,
                 IF command = "A" THEN inverted \o <<"G", "G", "A", "G", "G">>
                 ELSE IF command = "G" THEN inverted \o <<"G">>
                 ELSE inverted)

invert_commands_one_turn(commands) ==
    invert_one_turn_loop(commands, Len(commands), <<>>)

invert_commands(commands) == invert_loop(commands, Len(commands), <<>>)

\* Optional list: None, or Some(list)
None == [none |-> TRUE, path |-> <<>>]
Some(path) == [none |-> FALSE, path |-> path]

\* _find_alternative_path, the loop 'for rotations in [1, 2, 3]': one
\* candidate, rotations Turns and an Advance, is appended per iteration
RECURSIVE find_alternative_loop(_, _, _)
find_alternative_loop(rotations_list, n, alternatives) ==
    IF n > Len(rotations_list) THEN alternatives
    ELSE LET test_commands == [j \in 1..rotations_list[n] |-> "G"]
         IN  find_alternative_loop(rotations_list, n + 1,
                                   Append(alternatives, test_commands \o <<"A">>))

\* a search that also tries a fourth rotation
find_alternative_four_rotations == find_alternative_loop(<<1, 2, 3, 4>>, 1, <<>>)

\* the candidates the search builds
find_alternative_candidates == find_alternative_loop(<<1, 2, 3>>, 1, <<>>)

\* a search that probes the cell each candidate would advance into and
\* gives up when none is free
find_alternative_path_probing(remaining) ==
    LET free(r) == get_cell_content(grid, get_adjacent_pos(pos, (dir + r) % 4)) # "PAREDE"
        alternatives == find_alternative_candidates
    IN  IF free(1) THEN Some(alternatives[1])
        ELSE IF free(2) THEN Some(alternatives[2])
        ELSE IF free(3) THEN Some(alternatives[3])
        ELSE None

\* _find_alternative_path as written: three candidates, the first returned
find_alternative_path(remaining) ==
    LET alternatives == find_alternative_candidates
    IN  IF Len(alternatives) > 0 THEN Some(alternatives[1]) ELSE None

\* the test's replacement of _find_alternative_path
mock_find_alternative(remaining) == None

FindAlternative(remaining) ==
    IF find_alt_mocked THEN mock_find_alternative(remaining)
    ELSE find_alternative_path(remaining)

\* RobotController.run: not returned yet, and its return values
Running == <<"", "", "">>
MissaoCompletada == <<"MISSAO_COMPLETADA", "", "">>
BecoStatus ==
    <<"BECO_POS_COLETA", "", "Robo ficou preso em beco apos coletar humano">>
HumanoNaoEncontrado == <<"HUMANO_NAO_ENCONTRADO", "", "">>
ErroStatus(e) == <<"ERRO", "", e>>
ErroRetornoStatus(e) == <<"ERRO", "Erro durante retorno", e>>

AlarmLine == LogLine("ALARM", "BECO_POS_COLETA", "Robo preso em beco", "apos coleta", TRUE)

AllWalls(s) == s[1] = "PAREDE" /\ s[2] = "PAREDE" /\ s[3] = "PAREDE"

---------------------------------------------------------------------------
(* State machine *)

Commands == {"A", "G", "P", "E", "Z"}

InBox(g, p) ==
    /\ -MaxOut <= p[1] /\ p[1] <= Width(g) - 1 + MaxOut
    /\ -MaxOut <= p[2] /\ p[2] <= Height(g) - 1 + MaxOut

\* HardwareInterface.__init__ and RobotController.__init__
Init ==
    /\ grid \in Maps
    /\ pos = find_entry(grid)
    /\ dir = initial_dir(grid)
    /\ carga = FALSE
    /\ log = << LET s == get_sensor_readings(grid, find_entry(grid), initial_dir(grid))
                IN  LogLine("LIGAR", s[1], s[2], s[3], FALSE) >>
    /\ memory = <<>>
    /\ returner_memory = <<>>
    /\ steps = 0
    /\ state = "IDLE"
    /\ op = "init"
    /\ lastCmd = ""
    /\ result = OK
    /\ find_alt_mocked \in BOOLEAN
    /\ remaining_steps = <<>>
    /\ i = 0
    /\ return_commands = <<>>
    /\ reads = <<>>
    /\ k = 0
    /\ caller = ""
    /\ executed = <<>>
    /\ pc = "idle"
    /\ status = Running

plan_vars == <<remaining_steps, i, return_commands, reads, k, caller, executed>>

\* RobotController.run, line 39
StartRun ==
    /\ pc = "idle"
    /\ state' = "EXPLORING"
    /\ pc' = "explore"
    /\ op' = "run"
    /\ UNCHANGED <<grid, pos, dir, carga, log, memory, returner_memory, lastCmd, result,
                   find_alt_mocked, steps, status>>
    /\ UNCHANGED plan_vars

\* an _execute_command that records every command that succeeds
execute_command_always_records(command) ==
    /\ send_command(command)
    /\ memory' = IF result' = OK THEN Append(memory, command) ELSE memory
    /\ returner_memory' = IF result' = OK
                          THEN Append(returner_memory, command)
                          ELSE returner_memory

\* an _execute_command that forgets to tell the Returner
execute_command_controller_only(command) ==
    /\ send_command(command)
    /\ memory' = IF result' = OK /\ state = "EXPLORING"
                 THEN Append(memory, command)
                 ELSE memory
    /\ returner_memory' = returner_memory

\* RobotController._execute_command: the command is sent and, when it
\* succeeds while the state is EXPLORING, appended to the controller's
\* memory and, through add_command_to_memory, to the Returner's
execute_command(command) ==
    /\ send_command(command)
    /\ memory' = IF result' = OK /\ state = "EXPLORING"
                 THEN Append(memory, command)
                 ELSE memory
    /\ returner_memory' = IF result' = OK /\ state = "EXPLORING"
                          THEN Append(returner_memory, command)
                          ELSE returner_memory

\* a command of the exploration, sent through _execute_command
ExecuteCommand(cmd) ==
    /\ pc = "explore"
    /\ Len(memory) < MaxHist
    /\ cmd = "A" => InBox(grid, get_adjacent_pos(pos, dir))
    /\ execute_command(cmd)
    /\ UNCHANGED <<state, find_alt_mocked, steps, pc, status>>
    /\ UNCHANGED plan_vars

\* a plan_return that enters the checking loop also without cargo
plan_return_always_checks(mem) ==
    /\ op' = "plan"
    /\ reads' = <<>>
    /\ k' = 1
    /\ executed' = <<>>
    /\ return_commands' = <<>>
    /\ remaining_steps' = invert_commands(mem)
    /\ i' = 1
    /\ pc' = "plan"

\* plan_return lines 29-35: without cargo the inversion is the plan; with
\* cargo the checking loop starts
plan_return_starts(mem) ==
    /\ op' = "plan"
    /\ reads' = <<>>
    /\ k' = 1
    /\ executed' = <<>>
    /\ IF ~carga
       THEN /\ return_commands' = invert_commands(mem)
            /\ remaining_steps' = <<>>
            /\ i' = 0
            /\ pc' = "exec"
       ELSE /\ return_commands' = <<>>
            /\ remaining_steps' = invert_commands(mem)
            /\ i' = 1
            /\ pc' = "plan"

\* run lines 52-54: state RETURNING, _execute_return calls plan_return
BeginReturn ==
    /\ pc \in {"explore", "picked"}
    /\ state' = "RETURNING"
    /\ caller' = "run"
    /\ plan_return_starts(memory)
    /\ UNCHANGED <<grid, pos, dir, carga, log, memory, returner_memory, lastCmd, result,
                   find_alt_mocked, steps, status>>

\* Returner.execute_return called on the Returner's memory: it calls
\* plan_return; the controller's state is not touched
BeginExecuteReturn ==
    /\ pc = "explore"
    /\ caller' = "execute_return"
    /\ plan_return_starts(returner_memory)
    /\ UNCHANGED <<grid, pos, dir, carga, log, memory, returner_memory, state, lastCmd, result,
                   find_alt_mocked, steps, status>>

\* plan_return, one iteration that ends in return_commands.append(command)
PlanAppend ==
    /\ pc = "plan"
    /\ i <= Len(remaining_steps)
    /\ LET command == remaining_steps[i]
       IN  /\ command = "A" => ~AllWalls(read_sensors)
           /\ reads' = IF command = "A"
                       THEN Append(reads, <<i, pos, dir, read_sensors>>)
                       ELSE reads
           /\ return_commands' = Append(return_commands, command)
    /\ i' = i + 1
    /\ op' = "plan"
    /\ UNCHANGED <<grid, pos, dir, carga, log, memory, returner_memory, state, lastCmd, result,
                   find_alt_mocked, steps, remaining_steps, k, pc, caller, executed,
                   status>>

\* an all-walls iteration that takes the alternative path and goes on with
\* the rest of the inversion
PlanAlternative_continues ==
    /\ pc = "plan"
    /\ i <= Len(remaining_steps)
    /\ remaining_steps[i] = "A"
    /\ AllWalls(read_sensors)
    /\ LET alternative_path ==
               FindAlternative(SubSeq(remaining_steps, i, Len(remaining_steps)))
       IN  /\ ~alternative_path.none
           /\ return_commands' = return_commands \o alternative_path.path
    /\ reads' = Append(reads, <<i, pos, dir, read_sensors>>)
    /\ i' = i + 1
    /\ op' = "plan"
    /\ UNCHANGED <<grid, pos, dir, carga, log, memory, returner_memory, state, lastCmd, result,
                   find_alt_mocked, steps, remaining_steps, k, pc, caller, executed,
                   status>>

\* plan_return, the iteration that finds all three readings PAREDE and an
\* alternative path: the plan ends with it
PlanAlternative ==
    /\ pc = "plan"
    /\ i <= Len(remaining_steps)
    /\ remaining_steps[i] = "A"
    /\ AllWalls(read_sensors)
    /\ LET alternative_path ==
               FindAlternative(SubSeq(remaining_steps, i, Len(remaining_steps)))
       IN  /\ ~alternative_path.none
           /\ return_commands' = return_commands \o alternative_path.path
    /\ reads' = Append(reads, <<i, pos, dir, read_sensors>>)
    /\ pc' = "exec"
    /\ op' = "plan"
    /\ UNCHANGED <<grid, pos, dir, carga, log, memory, returner_memory, state, lastCmd, result,
                   find_alt_mocked, steps, remaining_steps, i, k, caller, executed,
                   status>>

\* the trapped iteration without the alarm line
PlanTrapped_no_alarm ==
    /\ pc = "plan"
    /\ i <= Len(remaining_steps)
    /\ remaining_steps[i] = "A"
    /\ AllWalls(read_sensors)
    /\ FindAlternative(SubSeq(remaining_steps, i, Len(remaining_steps))).none
    /\ reads' = Append(reads, <<i, pos, dir, read_sensors>>)
    /\ IF caller = "run"
       THEN state' = "ERROR" /\ status' = BecoStatus
       ELSE UNCHANGED <<state, status>>
    /\ pc' = "end"
    /\ op' = "raise"
    /\ UNCHANGED <<grid, pos, dir, carga, log, memory, returner_memory, lastCmd, result,
                   find_alt_mocked, steps, remaining_steps, i, return_commands, k,
                   caller, executed>>

\* a trapped planner whose exception is swallowed: the alarm is logged and
\* run goes on to the final 'E'
PlanTrapped_swallowed ==
    /\ pc = "plan"
    /\ i <= Len(remaining_steps)
    /\ remaining_steps[i] = "A"
    /\ AllWalls(read_sensors)
    /\ FindAlternative(SubSeq(remaining_steps, i, Len(remaining_steps))).none
    /\ reads' = Append(reads, <<i, pos, dir, read_sensors>>)
    /\ log' = Append(log, AlarmLine)
    /\ pc' = IF caller = "run" THEN "eject" ELSE "end"
    /\ op' = "raise"
    /\ UNCHANGED <<grid, pos, dir, carga, memory, returner_memory, state, lastCmd, result,
                   find_alt_mocked, steps, remaining_steps, i, return_commands, k,
                   caller, executed, status>>

\* plan_return, the iteration that finds all three readings PAREDE and no
\* alternative: the alarm is logged and BecoPosColetaError is raised; run
\* catches it (lines 65-67), execute_return lets it through
PlanTrapped ==
    /\ pc = "plan"
    /\ i <= Len(remaining_steps)
    /\ remaining_steps[i] = "A"
    /\ AllWalls(read_sensors)
    /\ FindAlternative(SubSeq(remaining_steps, i, Len(remaining_steps))).none
    /\ reads' = Append(reads, <<i, pos, dir, read_sensors>>)
    /\ log' = Append(log, AlarmLine)
    /\ IF caller = "run"
       THEN state' = "ERROR" /\ status' = BecoStatus
       ELSE UNCHANGED <<state, status>>
    /\ pc' = "end"
    /\ op' = "raise"
    /\ UNCHANGED <<grid, pos, dir, carga, memory, returner_memory, lastCmd, result,
                   find_alt_mocked, steps, remaining_steps, i, return_commands, k,
                   caller, executed>>

\* plan_return, the loop is exhausted: return return_commands
PlanReturn ==
    /\ pc = "plan"
    /\ i > Len(remaining_steps)
    /\ pc' = "exec"
    /\ op' = "plan"
    /\ UNCHANGED <<grid, pos, dir, carga, log, memory, returner_memory, state, lastCmd, result,
                   find_alt_mocked, steps, remaining_steps, i, return_commands, reads,
                   k, caller, executed, status>>

\* _execute_return, one iteration of the loop over return_commands
ReturnStep ==
    /\ pc = "exec"
    /\ caller = "run"
    /\ k <= Len(return_commands)
    /\ send_command(return_commands[k])
    /\ IF result' = OK
       THEN /\ k' = k + 1
            /\ UNCHANGED <<state, pc, status>>
       ELSE /\ k' = k
            /\ state' = "ERROR"
            /\ status' = ErroRetornoStatus(result')
            /\ pc' = "end"
    /\ UNCHANGED <<memory, returner_memory, find_alt_mocked, steps, remaining_steps, i,
                   return_commands, reads, caller, executed>>

\* _execute_return returns
ReturnDone ==
    /\ pc = "exec"
    /\ caller = "run"
    /\ k > Len(return_commands)
    /\ pc' = "eject"
    /\ op' = "returned"
    /\ UNCHANGED <<grid, pos, dir, carga, log, memory, returner_memory, state, lastCmd, result,
                   find_alt_mocked, steps, status>>
    /\ UNCHANGED plan_vars

\* the line Returner.execute_return logs when a command fails
ErroRetornoLine(e) == LogLine("ALARM", "ERRO_RETORNO", e, "", TRUE)

\* an execute_return iteration that also records the command that failed
ExecuteReturnStep_records_failure ==
    /\ pc = "exec"
    /\ caller = "execute_return"
    /\ k <= Len(return_commands)
    /\ send_command(return_commands[k])
    /\ executed' = Append(executed, return_commands[k])
    /\ IF result' = OK
       THEN k' = k + 1 /\ pc' = pc
       ELSE k' = k /\ pc' = "except"
    /\ UNCHANGED <<memory, returner_memory, state, find_alt_mocked, steps, remaining_steps, i,
                   return_commands, reads, caller, status>>

\* Returner.execute_return, one iteration of the loop: the command is sent
\* and, when it succeeds, appended to executed
ExecuteReturnStep ==
    /\ pc = "exec"
    /\ caller = "execute_return"
    /\ k <= Len(return_commands)
    /\ send_command(return_commands[k])
    /\ IF result' = OK
       THEN /\ executed' = Append(executed, return_commands[k])
            /\ k' = k + 1
            /\ pc' = pc
       ELSE /\ executed' = executed
            /\ k' = k
            /\ pc' = "except"
    /\ UNCHANGED <<memory, returner_memory, state, find_alt_mocked, steps, remaining_steps, i,
                   return_commands, reads, caller, status>>

\* Returner.execute_return, the except clause: the alarm line, then break
\* and return executed
ExecuteReturnExcept ==
    /\ pc = "except"
    /\ log' = Append(log, ErroRetornoLine(result))
    /\ pc' = "end"
    /\ op' = "returned"
    /\ UNCHANGED <<grid, pos, dir, carga, memory, returner_memory, state, lastCmd, result,
                   find_alt_mocked, steps, status>>
    /\ UNCHANGED plan_vars

\* Returner.execute_return, the loop is exhausted: return executed
ExecuteReturnDone ==
    /\ pc = "exec"
    /\ caller = "execute_return"
    /\ k > Len(return_commands)
    /\ pc' = "end"
    /\ op' = "returned"
    /\ UNCHANGED <<grid, pos, dir, carga, log, memory, returner_memory, state, lastCmd, result,
                   find_alt_mocked, steps, status>>
    /\ UNCHANGED plan_vars

\* run lines 56-60: the final 'E' (state is RETURNING, so nothing is recorded)
FinalEject ==
    /\ pc = "eject"
    /\ execute_command("E")
    /\ IF result' = OK
       THEN /\ state' = "COMPLETED"
            /\ status' = MissaoCompletada
       ELSE /\ state' = "ERROR"
            /\ status' = ErroStatus(result')
    /\ pc' = "end"
    /\ UNCHANGED <<find_alt_mocked, steps>>
    /\ UNCHANGED plan_vars

Next ==
    \/ StartRun
    \/ \E cmd \in Commands : ExecuteCommand(cmd)
    \/ BeginReturn
    \/ BeginExecuteReturn
    \/ PlanAppend
    \/ PlanAlternative
    \/ PlanTrapped
    \/ PlanReturn
    \/ ReturnStep
    \/ ReturnDone
    \/ ExecuteReturnStep
    \/ ExecuteReturnExcept
    \/ ExecuteReturnDone
    \/ FinalEject

Spec == Init /\ [][Next]_vars

---------------------------------------------------------------------------
(* The inversion alone, over every history of the four commands *)

\* longest history handed to the inversion
MaxLen == 5

Histories == UNION {[1..n -> {"A", "G", "P", "E"}] : n \in 0..MaxLen}

InitInvert ==
    /\ grid = MapPocket
    /\ pos = find_entry(grid)
    /\ dir = initial_dir(grid)
    /\ carga = FALSE
    /\ log = <<>>
    /\ memory \in Histories
    /\ returner_memory = memory
    /\ steps = 0
    /\ state = "IDLE"
    /\ op = "init"
    /\ lastCmd = ""
    /\ result = OK
    /\ find_alt_mocked = FALSE
    /\ remaining_steps = <<>>
    /\ i = 0
    /\ return_commands = <<>>
    /\ reads = <<>>
    /\ k = 0
    /\ caller = ""
    /\ executed = <<>>
    /\ pc = "invert"
    /\ status = Running

\* plan_return without cargo: return _invert_commands(memory)
Invert ==
    /\ pc = "invert"
    /\ return_commands' = invert_commands(memory)
    /\ pc' = "inverted"
    /\ op' = "plan"
    /\ UNCHANGED <<grid, pos, dir, carga, log, memory, returner_memory, state, lastCmd, result,
                   find_alt_mocked, steps, remaining_steps, i, reads, k, caller,
                   executed, status>>

NextInvert == Invert

SpecInvert == InitInvert /\ [][NextInvert]_vars

---------------------------------------------------------------------------
(* The command engine alone: commands sent from a pose and cargo the caller *)
(* has set on the hardware interface, as the tests do.                      *)

\* most commands sent in one such run
MaxSim == 2

\* cells a caller may put the robot on: not a wall, at most MaxOut outside
Placements(g) ==
    {p \in (-MaxOut..Width(g) - 1 + MaxOut) \X (-MaxOut..Height(g) - 1 + MaxOut) :
        is_position_valid(g, p) => Cell(g, p) # "X"}

InitSim ==
    /\ grid \in Maps
    /\ pos \in Placements(grid)
    /\ dir \in 0..3
    /\ carga \in BOOLEAN
    /\ log = << LET s == get_sensor_readings(grid, find_entry(grid), initial_dir(grid))
                IN  LogLine("LIGAR", s[1], s[2], s[3], FALSE) >>
    /\ memory = <<>>
    /\ returner_memory = <<>>
    /\ steps = 0
    /\ state = "IDLE"
    /\ op = "init"
    /\ lastCmd = ""
    /\ result = OK
    /\ find_alt_mocked = FALSE
    /\ remaining_steps = <<>>
    /\ i = 0
    /\ return_commands = <<>>
    /\ reads = <<>>
    /\ k = 0
    /\ caller = ""
    /\ executed = <<>>
    /\ pc = "sim"
    /\ status = Running

\* HardwareInterface.send_command called directly
SimCommand(cmd) ==
    /\ pc = "sim"
    /\ Len(log) <= MaxSim
    /\ cmd = "A" => InBox(grid, get_adjacent_pos(pos, dir))
    /\ send_command(cmd)
    /\ UNCHANGED <<memory, returner_memory, state, find_alt_mocked, steps, pc, status>>
    /\ UNCHANGED plan_vars

NextSim == \E cmd \in Commands : SimCommand(cmd)

SpecSim == InitSim /\ [][NextSim]_vars

---------------------------------------------------------------------------
(* RobotController.run with _explore_for_human as written *)

\* a row with the victim two cells from the entry
MapRowFar == << <<"@",".","E">> >>

\* the room of the simulator's tests: the entry in a corner, walled off
MapRoom == << <<"X","X","X","X","X">>,
              <<"X",".",".",".","X">>,
              <<"X",".","@",".","X">>,
              <<"X",".",".",".","X">>,
              <<"E","X","X","X","X">> >>

\* a room entered from the left, the victim around the corner
MapBend == << <<"X","X","X","X">>,
              <<"E",".",".","X">>,
              <<"X","X","@","X">>,
              <<"X","X","X","X">> >>

RunMaps == Maps \cup {MapRowFar, MapRoom, MapBend}

\* _explore_for_human, line 79
max_steps == 50

InitRun ==
    /\ grid \in RunMaps
    /\ pos = find_entry(grid)
    /\ dir = initial_dir(grid)
    /\ carga = FALSE
    /\ log = << LET s == get_sensor_readings(grid, find_entry(grid), initial_dir(grid))
                IN  LogLine("LIGAR", s[1], s[2], s[3], FALSE) >>
    /\ memory = <<>>
    /\ returner_memory = <<>>
    /\ steps = 0
    /\ state = "IDLE"
    /\ op = "init"
    /\ lastCmd = ""
    /\ result = OK
    /\ find_alt_mocked \in BOOLEAN
    /\ remaining_steps = <<>>
    /\ i = 0
    /\ return_commands = <<>>
    /\ reads = <<>>
    /\ k = 0
    /\ caller = ""
    /\ executed = <<>>
    /\ pc = "idle"
    /\ status = Running

\* run, line 39 and the entry into _explore_for_human
RunStart ==
    /\ pc = "idle"
    /\ state' = "EXPLORING"
    /\ steps' = 0
    /\ pc' = "loop"
    /\ op' = "run"
    /\ UNCHANGED <<grid, pos, dir, carga, log, memory, returner_memory, lastCmd,
                   result, find_alt_mocked, status>>
    /\ UNCHANGED plan_vars

\* a run that goes on after a command has failed
run_command_ignores_failure(command, next_pc) ==
    /\ execute_command(command)
    /\ pc' = next_pc
    /\ UNCHANGED <<state, status>>
    /\ UNCHANGED find_alt_mocked
    /\ UNCHANGED plan_vars

\* a command of run sent through _execute_command: an exception leaves run
\* through 'except Exception', a success goes on at next_pc
run_command(command, next_pc) ==
    /\ execute_command(command)
    /\ IF result' = OK
       THEN /\ pc' = next_pc
            /\ UNCHANGED <<state, status>>
       ELSE /\ pc' = "end"
            /\ state' = "ERROR"
            /\ status' = ErroStatus(result')
    /\ UNCHANGED find_alt_mocked
    /\ UNCHANGED plan_vars

\* _explore_for_human, lines 84-86: the victim is in front, return True
ExploreFound ==
    /\ pc = "loop"
    /\ steps < max_steps
    /\ read_sensors[3] = "HUMANO"
    /\ pc' = "pickup"
    /\ op' = "run"
    /\ UNCHANGED <<grid, pos, dir, carga, log, memory, returner_memory, state,
                   lastCmd, result, find_alt_mocked, steps, status>>
    /\ UNCHANGED plan_vars

\* lines 89-91: the right side is not a wall, turn right
ExploreRight ==
    /\ pc = "loop"
    /\ steps < max_steps
    /\ read_sensors[3] # "HUMANO"
    /\ read_sensors[2] # "PAREDE"
    /\ run_command("G", "forward")
    /\ UNCHANGED steps

\* an iteration of the right-turn branch that is not counted
ExploreForward_uncounted ==
    /\ pc = "forward"
    /\ IF read_sensors[3] # "PAREDE"
       THEN run_command("A", "loop")
       ELSE /\ pc' = "loop"
            /\ op' = "run"
            /\ UNCHANGED <<grid, pos, dir, carga, log, memory, returner_memory,
                           state, lastCmd, result, find_alt_mocked, status>>
            /\ UNCHANGED plan_vars
    /\ steps' = steps

\* lines 92-93 and 105: after the turn, advance if _can_move_forward (the
\* front is not a wall); the iteration is counted
ExploreForward ==
    /\ pc = "forward"
    /\ IF read_sensors[3] # "PAREDE"
       THEN run_command("A", "loop")
       ELSE /\ pc' = "loop"
            /\ op' = "run"
            /\ UNCHANGED <<grid, pos, dir, carga, log, memory, returner_memory,
                           state, lastCmd, result, find_alt_mocked, status>>
            /\ UNCHANGED plan_vars
    /\ steps' = steps + 1

\* lines 94-96 and 105: wall on the right, the front is not a wall: advance
ExploreAhead ==
    /\ pc = "loop"
    /\ steps < max_steps
    /\ read_sensors[3] # "HUMANO"
    /\ read_sensors[2] = "PAREDE"
    /\ read_sensors[3] # "PAREDE"
    /\ run_command("A", "loop")
    /\ steps' = steps + 1

\* lines 97-102 and 105: walls on the right and in front: three turns, the
\* n-th of them
ExploreTurnLeft(n) ==
    /\ pc = <<"loop", "left2", "left3">>[n]
    /\ n = 1 =>
          /\ steps < max_steps
          /\ read_sensors[3] # "HUMANO"
          /\ read_sensors[2] = "PAREDE"
          /\ read_sensors[3] = "PAREDE"
    /\ run_command("G", <<"left2", "left3", "loop">>[n])
    /\ steps' = IF n = 3 THEN steps + 1 ELSE steps

\* line 107 and run lines 62-65: the cap is reached, return False
ExploreGiveUp ==
    /\ pc = "loop"
    /\ steps >= max_steps
    /\ state' = "COMPLETED"
    /\ status' = HumanoNaoEncontrado
    /\ pc' = "end"
    /\ op' = "run"
    /\ UNCHANGED <<grid, pos, dir, carga, log, memory, returner_memory, lastCmd,
                   result, find_alt_mocked, steps>>
    /\ UNCHANGED plan_vars

\* run, line 49: the Pickup, still in state EXPLORING
RunPickup ==
    /\ pc = "pickup"
    /\ run_command("P", "picked")
    /\ UNCHANGED steps

NextRun ==
    \/ RunStart
    \/ ExploreFound
    \/ ExploreRight
    \/ ExploreForward
    \/ ExploreAhead
    \/ \E n \in 1..3 : ExploreTurnLeft(n)
    \/ ExploreGiveUp
    \/ RunPickup
    \/ BeginReturn
    \/ PlanAppend
    \/ PlanReturn
    \/ ReturnStep
    \/ ReturnDone
    \/ FinalEject

SpecRun == InitRun /\ [][NextRun]_vars

\* run is scheduled until it returns
FairSpecRun == SpecRun /\ WF_vars(NextRun)

---------------------------------------------------------------------------
(* Claims *)

\* this step is a call of HardwareInterface.send_command(c)
Sent(c) == op' = "send" /\ lastCmd' = c

Front == get_adjacent_pos(pos, dir)

FrontIs(ch) == is_position_valid(grid, Front) /\ Cell(grid, Front) = ch

\* the commands of cmds applied in order from (g, st), stopping at the first
\* one that fails
RECURSIVE replay(_, _, _, _)
replay(g, st, cmds, n) ==
    IF n > Len(cmds) THEN Outcome(OK, st, g)
    ELSE LET r == apply_command(g, st, cmds[n])
         IN  IF r.err # OK THEN r ELSE replay(r.grid, r.state, cmds, n + 1)

\* C1: an Advance whose front cell is a wall inside the grid fails with
\* CollisionError; one whose front cell is the victim, without cargo, fails
\* with AtropelamentoError; every other Advance moves the robot to the front
\* cell and leaves heading, cargo and grid as they were.
C1_Advance ==
    [][Sent("A") =>
        IF FrontIs("X") THEN result' = CollisionError
        ELSE IF FrontIs("@") /\ ~carga THEN result' = AtropelamentoError
        ELSE /\ result' = OK
             /\ pos' = Front
             /\ UNCHANGED <<dir, carga, grid>>]_vars

C1_Witness ==
    /\ op = "send" /\ lastCmd = "A" /\ result = OK
    /\ carga
    /\ is_position_valid(grid, pos)
    /\ Cell(grid, pos) = "@"

\* C2: a Pickup whose front cell is outside the grid or is not the victim
\* fails with InvalidPickupError; otherwise exactly the front cell changes,
\* from '@' to '.', cargo becomes true, position and heading stay.
C2_Pickup ==
    [][Sent("P") =>
        IF ~FrontIs("@") THEN result' = InvalidPickupError
        ELSE /\ result' = OK
             /\ carga'
             /\ UNCHANGED <<pos, dir>>
             /\ Cell(grid', Front) = "."
             /\ \A p \in (0..Width(grid) - 1) \X (0..Height(grid) - 1) :
                    p # Front => Cell(grid', p) = Cell(grid, p)
             /\ Width(grid') = Width(grid) /\ Height(grid') = Height(grid)]_vars

C2_Witness ==
    /\ op = "send" /\ lastCmd = "P" /\ result = OK
    /\ carga
    /\ Cell(grid, Front) = "."

\* C3: Eject fails for want of cargo whenever cargo is false, else for not
\* being at the entry whenever the position is not the entry, else for not
\* facing the exit whenever the front cell is inside the grid; otherwise it
\* succeeds and changes only cargo, to false.
C3_Eject ==
    [][Sent("E") =>
        IF ~carga THEN result' = EjectSemCarga
        ELSE IF pos # find_entry(grid) THEN result' = EjectForaDaEntrada
        ELSE IF is_position_valid(grid, Front) THEN result' = EjectNaoDeFrente
        ELSE /\ result' = OK
             /\ ~carga'
             /\ UNCHANGED <<pos, dir, grid>>]_vars

C3_Witness ==
    /\ op = "send" /\ lastCmd = "E" /\ result = OK
    /\ ~carga
    /\ pos = find_entry(grid)
    /\ ~is_position_valid(grid, Front)

\* C4: every Turn succeeds and sets the heading to (heading + 1) mod 4,
\* leaving position, cargo and grid as they were.
C4_Turn ==
    [][Sent("G") =>
        /\ result' = OK
        /\ dir' = (dir + 1) % 4
        /\ UNCHANGED <<pos, carga, grid>>]_vars

C4_Witness ==
    /\ op = "send" /\ lastCmd = "G" /\ result = OK
    /\ dir = (initial_dir(grid) + 1) % 4
    /\ carga

\* C5: a command that fails leaves position, heading, cargo and grid
\* exactly as they were.
C5_Atomic ==
    [][op' = "send" /\ result' # OK => UNCHANGED <<pos, dir, carga, grid>>]_vars

C5_Witness ==
    /\ op = "send" /\ lastCmd = "P" /\ result = InvalidPickupError
    /\ carga

\* C6: the grid changes only in a step that is a successful Pickup; every
\* other command, failed command and sensor read of the planner leaves it.
C6_GridFrame ==
    [][grid' # grid => Sent("P") /\ result' = OK]_vars

C6_Witness ==
    /\ reads # <<>>
    /\ grid \notin Maps
    /\ op = "send" /\ lastCmd = "A" /\ result = CollisionError

\* C7: from every state reached by a history of successful commands, the
\* inverted history succeeds at every step and ends at the entry with the
\* initial heading; and when the executed plan is the inverted history, no
\* return step fails and the return ends at the entry with the initial
\* heading.
C7_InverseReturns ==
    /\ pc = "explore" =>
          LET r == replay(grid, RobotState(pos, dir, carga),
                          invert_commands(memory), 1)
          IN  /\ r.err = OK
              /\ r.state.pos = find_entry(grid)
              /\ r.state.dir = initial_dir(grid)
    /\ pc \in {"exec", "eject", "end"} /\ return_commands = invert_commands(memory) =>
          /\ status[2] # "Erro durante retorno"
          /\ pc = "eject" => pos = find_entry(grid) /\ dir = initial_dir(grid)

C7_Witness ==
    /\ pc = "eject"
    /\ return_commands = invert_commands(memory)
    /\ Len(memory) = MaxHist
    /\ \E a, b, c \in 1..Len(memory) :
          memory[a] = "A" /\ memory[b] = "G" /\ memory[c] = "P"
    /\ carga
    /\ pos = find_entry(grid)

\* C8: the inversion of a history is the concatenation, from the most
\* recent command back to the oldest, of G,G,A,G,G for an A, G,G,G for a G
\* and nothing for a P or an E.
UndoOf(command) ==
    CASE command = "A" -> <<"G", "G", "A", "G", "G">>
      [] command = "G" -> <<"G", "G", "G">>
      [] OTHER -> <<>>

RECURSIVE UndoConcat(_)
UndoConcat(h) ==
    IF h = <<>> THEN <<>>
    ELSE UndoOf(h[Len(h)]) \o UndoConcat(SubSeq(h, 1, Len(h) - 1))

C8_Inversion ==
    pc = "inverted" => return_commands = UndoConcat(memory)

C8_Witness ==
    /\ pc = "inverted"
    /\ memory = <<"A", "P", "G", "E">>
    /\ return_commands = <<"G", "G", "G", "G", "G", "A", "G", "G">>

\* C9: with cargo, the sensor reading that decided about an Advance of the
\* plan was taken at the pose the robot has when that Advance is next to
\* be executed.
C9_CheckedWhereExecuted ==
    pc = "exec" /\ k <= Len(return_commands) /\ return_commands[k] = "A" =>
        \A n \in 1..Len(reads) :
            reads[n][1] = k => reads[n][2] = pos /\ reads[n][3] = dir

\* C10: when the planner, with cargo, reads PAREDE on the three sides before
\* an inverted Advance and the search gives no alternative, the step raises
\* BecoPosColetaError and appends exactly one line, the alarm, to the log.
Trapped ==
    /\ pc = "plan"
    /\ carga
    /\ i <= Len(remaining_steps)
    /\ remaining_steps[i] = "A"
    /\ AllWalls(read_sensors)
    /\ FindAlternative(SubSeq(remaining_steps, i, Len(remaining_steps))).none

C10_TrappedAlarm ==
    [][Trapped =>
        /\ op' = "raise"
        /\ caller = "run" => status' = BecoStatus
        /\ log' = Append(log, AlarmLine)
        /\ Len(log') = Len(log) + 1]_vars

C10_Witness ==
    /\ status = BecoStatus
    /\ op = "raise"
    /\ log[Len(log)] = AlarmLine
    /\ Cardinality({n \in 1..Len(log) : log[n][1] = "ALARM"}) = 1

\* the enclosed map once the victim has been picked up
EnclosedAfterPickup == [MapEnclosed EXCEPT ![2][3] = "."]

\* a successful Pickup has just been sent
PickedUp == op = "send" /\ lastCmd = "P" /\ result = OK

\* the return is planned from the pose of the Pickup
PlannedAtPickup ==
    /\ pc \in {"plan", "exec", "except", "eject", "end"}
    /\ Len(memory) > 0
    /\ memory[Len(memory)] = "P"

C12_TrappedIsFatal ==
    [][/\ Trapped /\ caller = "run" =>
            /\ state' = "ERROR"
            /\ status'[1] = "BECO_POS_COLETA"
            /\ pc' = "end"
            /\ op' # "send"
            /\ UNCHANGED <<pos, dir, carga, grid, return_commands>>
       /\ status = BecoStatus => op' \notin {"send", "plan"}]_vars

C12_Witness ==
    /\ caller = "run"
    /\ op = "raise"
    /\ state = "ERROR"
    /\ status = BecoStatus
    /\ pc = "end"
    /\ carga
    /\ lastCmd # "E"

\* C13: Returner.execute_return sends the commands of the plan one at a
\* time and in order, appends a command to executed exactly when it
\* succeeded, sends nothing after the first command that fails, and returns
\* the prefix of the plan that succeeded: either the whole plan, or the part
\* before the command that failed.
C13_ExecutedPrefix ==
    [][/\ caller = "execute_return" /\ op' = "send" =>
            /\ pc = "exec"
            /\ Len(executed) < Len(return_commands)
            /\ lastCmd' = return_commands[Len(executed) + 1]
            /\ IF result' = OK
               THEN executed' = Append(executed, lastCmd')
               ELSE executed' = executed
       /\ caller = "execute_return" /\ pc \in {"except", "end"} =>
            op' # "send"
       /\ caller' = "execute_return" /\ op' = "returned" =>
            /\ executed' = SubSeq(return_commands', 1, Len(executed'))
            /\ \/ executed' = return_commands'
               \/ /\ Len(executed') < Len(return_commands')
                  /\ result' # OK
                  /\ lastCmd' = return_commands'[Len(executed') + 1]]_vars

C13_Witness ==
    /\ caller = "execute_return"
    /\ op = "returned"
    /\ pc = "end"
    /\ result # OK
    /\ Len(executed) > 0
    /\ Len(executed) < Len(return_commands)
    /\ log[Len(log)] = ErroRetornoLine(result)

\* C14: when carga is false, plan_return returns exactly the inversion of
\* the history, in the very step that starts it: no sensor is read, no
\* safety check is made, no alternative is looked for, nothing is logged.
C14_NoCargoPlainInversion ==
    [][/\ op' = "plan" /\ ~carga =>
            /\ return_commands' = invert_commands(memory)
            /\ reads' = <<>>
            /\ pc' = "exec"
            /\ UNCHANGED <<log, pos, dir, carga, grid, memory>>
       /\ pc' \in {"exec", "except"} /\ ~carga' =>
            /\ return_commands' = invert_commands(memory')
            /\ reads' = <<>>]_vars

C14_Witness ==
    /\ op = "plan"
    /\ pc = "exec"
    /\ ~carga
    /\ reads = <<>>
    /\ \E n \in 1..Len(return_commands) : return_commands[n] = "A"
    /\ read_sensors[3] = "PAREDE"

\* the cell immediately outside the entry, on the side of the border that
\* fixed the initial heading
OutsideEntry(g) ==
    get_adjacent_pos(find_entry(g), (initial_dir(g) + 2) % 4)

\* C15, as stated: in every reachable state the position is inside the
\* grid or is the single cell immediately outside the entry in the
\* entry's outward direction.
C15_InsideOrOutsideEntry ==
    is_position_valid(grid, pos) \/ pos = OutsideEntry(grid)

\* the headings at which Eject succeeds at the entry while carrying
EjectHeadings(g) ==
    {d \in 0..3 : eject(g, RobotState(find_entry(g), d, TRUE)).err = OK}

\* the number of borders of the grid the entry lies on
EntryBorders(g) ==
    LET e == find_entry(g)
    IN  (IF e[2] = 0 THEN 1 ELSE 0) + (IF e[2] = Height(g) - 1 THEN 1 ELSE 0)
      + (IF e[1] = 0 THEN 1 ELSE 0) + (IF e[1] = Width(g) - 1 THEN 1 ELSE 0)

\* C16, as stated: there is exactly one heading at which Eject succeeds
\* at the entry while carrying.
C16_UniqueEjectPose ==
    Cardinality(EjectHeadings(grid)) = 1

\* C16, amended: Eject succeeds while carrying exactly at the entry with a
\* heading whose front cell is outside the grid; there is at least one such
\* heading, the one opposite to the initial heading is one of them, and
\* there are as many as borders the entry lies on (two for an entry in a
\* corner, more on a map of one row or one column); at the entry with any
\* other heading, away from the entry, or without cargo, Eject fails.
C16_EjectPoses ==
    /\ \A p \in {pos, find_entry(grid)} : \A d \in 0..3 : \A c \in BOOLEAN :
          eject(grid, RobotState(p, d, c)).err = OK
              <=> /\ c
                  /\ p = find_entry(grid)
                  /\ ~is_position_valid(grid, get_adjacent_pos(p, d))
    /\ \A d \in 0..3 :
          d \in EjectHeadings(grid)
              <=> ~is_position_valid(grid, get_adjacent_pos(find_entry(grid), d))
    /\ (initial_dir(grid) + 2) % 4 \in EjectHeadings(grid)
    /\ Cardinality(EjectHeadings(grid)) = EntryBorders(grid)
    /\ op = "send" /\ lastCmd = "E" /\ result = OK =>
          pos = find_entry(grid) /\ dir \in EjectHeadings(grid)

C16_Witness ==
    /\ op = "send" /\ lastCmd = "E" /\ result = OK
    /\ pos = find_entry(grid)
    /\ dir # (initial_dir(grid) + 2) % 4
    /\ Cardinality(EjectHeadings(grid)) = 2

\* C17: in every step of a mission carga goes from false to true only in
\* a successful Pickup and from true to false only in a successful Eject;
\* an Advance, a Turn, a failed command, a planning step with its sensor
\* reads, or the end of run never changes it.
C17_CargoChanges ==
    [][/\ ~carga /\ carga' => Sent("P") /\ result' = OK
       /\ carga /\ ~carga' => Sent("E") /\ result' = OK
       /\ op' = "send" /\ (lastCmd' \in {"A", "G", "Z"} \/ result' # OK) =>
            carga' = carga
       /\ op' # "send" => carga' = carga]_vars

C17_Witness ==
    /\ carga
    /\ op = "send" /\ lastCmd = "A" /\ result = OK
    /\ ~is_position_valid(grid, pos)
    /\ \E n \in 1..Len(memory) : memory[n] = "P"

\* the number of cells of g that hold ch
CountCells(g, ch) ==
    Cardinality({p \in (0..Width(g) - 1) \X (0..Height(g) - 1) : Cell(g, p) = ch})

\* one entry, on the border, and at most one victim
OneEntry(g) ==
    /\ CountCells(g, "E") = 1
    /\ CountCells(g, "@") <= 1
    /\ find_entry(g) # <<>>
    /\ Cell(g, find_entry(g)) = "E"
    /\ EntryBorders(g) >= 1

\* C18: in every reachable state the grid holds exactly one entry cell, on
\* the border and where it was at the start (no step moves it), and at most
\* one victim cell; so find_entry always finds the entry and no command
\* fails for want of one.
C18_OneEntryOneVictim ==
    /\ []OneEntry(grid)
    /\ [][/\ OneEntry(grid')
          /\ find_entry(grid') = find_entry(grid)
          /\ result' # EntradaNaoEncontrada]_vars

C18_Witness ==
    /\ op = "send" /\ lastCmd = "A" /\ result = OK
    /\ pos = find_entry(grid)
    /\ carga
    /\ CountCells(grid, "@") = 0
    /\ CountCells(grid, "E") = 1

\* the inversion of one Advance, applied from the current pose
RoundTrip(g, p, d, c) ==
    replay(g, RobotState(p, d, c), invert_commands(<<"A">>), 1)

\* C19: after every successful Advance of a mission, the commands
\* G,G,A,G,G (the inversion of that Advance) applied from the pose reached
\* all succeed and bring the robot back to the position and heading it had
\* before the Advance, with cargo and grid untouched.
C19_RoundTrip ==
    [][Sent("A") /\ result' = OK =>
        /\ invert_commands(<<"A">>) = <<"G", "G", "A", "G", "G">>
        /\ RoundTrip(grid', pos', dir', carga').err = OK
        /\ RoundTrip(grid', pos', dir', carga').state.pos = pos
        /\ RoundTrip(grid', pos', dir', carga').state.dir = dir
        /\ RoundTrip(grid', pos', dir', carga').state.carga = carga
        /\ RoundTrip(grid', pos', dir', carga').grid = grid]_vars

C19_Witness ==
    /\ op = "send" /\ lastCmd = "A" /\ result = OK
    /\ carga
    /\ is_position_valid(grid, pos)
    /\ RoundTrip(grid, pos, dir, carga).err = OK
    /\ RoundTrip(grid, pos, dir, carga).state.pos = find_entry(grid)
    /\ RoundTrip(grid, pos, dir, carga).state.dir = dir

\* four Turns applied from position p with heading d
FourTurns(g, p, d, c) ==
    replay(g, RobotState(p, d, c), <<"G", "G", "G", "G">>, 1)

\* C20: from the position the robot is at, inside or outside the grid, and
\* from every heading, four Turns in a row all succeed and give back the
\* same heading at the same position, with cargo and grid untouched; a
\* mission whose history is four Turns stands at the entry with its initial
\* heading.
C20_FourTurns ==
    /\ \A d \in 0..3 :
          FourTurns(grid, pos, d, carga) = Outcome(OK, RobotState(pos, d, carga), grid)
    /\ pc = "explore" /\ memory = <<"G", "G", "G", "G">> =>
          /\ pos = find_entry(grid)
          /\ dir = initial_dir(grid)
          /\ \A n \in 2..5 : log[n][1] = "G"

C20_Witness ==
    /\ pc = "explore"
    /\ memory = <<"G", "G", "G", "G">>
    /\ op = "send" /\ lastCmd = "G" /\ result = OK
    /\ dir = initial_dir(grid)

\* C21: a Pickup sent right after a successful Pickup, from the same pose,
\* fails with InvalidPickupError and changes nothing: pose, cargo, grid and
\* log stay as they were; the same holds for any number of further Pickups
\* from that pose.
C21_SecondPickupFails ==
    /\ [](PickedUp =>
            pickup(grid, RobotState(pos, dir, carga))
                = Outcome(InvalidPickupError, RobotState(pos, dir, carga), grid))
    /\ [][PickedUp /\ Sent("P") =>
            /\ result' = InvalidPickupError
            /\ UNCHANGED <<pos, dir, carga, grid, log, memory>>]_vars

C21_Witness ==
    /\ op = "send" /\ lastCmd = "P" /\ result = InvalidPickupError
    /\ carga
    /\ log[Len(log)][1] = "P"
    /\ FrontIs(".")

\* how many entries of the sequence h are the command c
Occurrences(h, c) == Cardinality({n \in 1..Len(h) : h[n] = c})

\* C22: for every history over A, G, P, E the inverted sequence holds only
\* A and G, never P or E: one A for each A of the history and, around and
\* between them, Turns only.
C22_InversionOnlyMoves ==
    /\ \A n \in 1..Len(invert_commands(memory)) :
          invert_commands(memory)[n] \in {"A", "G"}
    /\ Occurrences(invert_commands(memory), "A") = Occurrences(memory, "A")
    /\ pc = "inverted" =>
          /\ return_commands = invert_commands(memory)
          /\ Occurrences(return_commands, "P") = 0
          /\ Occurrences(return_commands, "E") = 0

C22_Witness ==
    /\ pc = "inverted"
    /\ Occurrences(memory, "P") > 0
    /\ Occurrences(memory, "E") > 0
    /\ Occurrences(memory, "A") > 0
    /\ Occurrences(return_commands, "A") > 0

\* C23: the history changes only by one command being appended, and only
\* when a command sent during the exploration succeeds; from the step that
\* starts the return on (planning, inversion, every command of the return,
\* the final Eject, the end of run) it stays exactly as it was.
C23_HistoryFrozen ==
    [][/\ memory' # memory =>
            /\ pc = "explore"
            /\ state = "EXPLORING"
            /\ op' = "send" /\ result' = OK
            /\ memory' = Append(memory, lastCmd')
       /\ pc \notin {"idle", "explore"} => memory' = memory
       /\ op' = "plan" => memory' = memory]_vars

C23_Witness ==
    /\ pc = "end"
    /\ status = MissaoCompletada
    /\ op = "send" /\ lastCmd = "E" /\ result = OK
    /\ memory # <<>>
    /\ memory[Len(memory)] = "P"
    /\ Occurrences(memory, "E") = 0

\* the cell next to p on the side of compass direction d (0 North, 1 East,
\* 2 South, 3 West)
Neighbour(p, d) ==
    <<p[1] + <<0, 1, 0, -1>>[d + 1], p[2] + <<-1, 0, 1, 0>>[d + 1]>>

\* what a sensor says of cell q
Reading(g, q) ==
    IF q[1] < 0 \/ q[1] >= Len(g[1]) \/ q[2] < 0 \/ q[2] >= Len(g) THEN "VAZIO"
    ELSE IF g[q[2] + 1][q[1] + 1] = "X" THEN "PAREDE"
    ELSE IF g[q[2] + 1][q[1] + 1] = "@" THEN "HUMANO"
    ELSE "VAZIO"

\* C24: at every position and heading the sensor reading is (left, right,
\* front): front is the cell next to the robot in direction heading, right
\* the one in direction (heading + 1) mod 4, left the one in direction
\* (heading - 1) mod 4; a cell reads PAREDE if it is 'X', HUMANO if it is
\* '@', and VAZIO if it is '.', 'E' or outside the grid.
C24_SensorReadings ==
    /\ read_sensors[1] = Reading(grid, Neighbour(pos, (dir + 3) % 4))
    /\ read_sensors[2] = Reading(grid, Neighbour(pos, (dir + 1) % 4))
    /\ read_sensors[3] = Reading(grid, Neighbour(pos, dir))
    /\ \A d \in 0..3 :
          get_sensor_readings(grid, pos, d) =
              << Reading(grid, Neighbour(pos, (d + 3) % 4)),
                 Reading(grid, Neighbour(pos, (d + 1) % 4)),
                 Reading(grid, Neighbour(pos, d)) >>
    /\ \A d \in 0..3 : is_position_valid(grid, Neighbour(pos, d)) =>
          Reading(grid, Neighbour(pos, d)) =
              CASE Cell(grid, Neighbour(pos, d)) = "X" -> "PAREDE"
                [] Cell(grid, Neighbour(pos, d)) = "@" -> "HUMANO"
                [] Cell(grid, Neighbour(pos, d)) \in {".", "E"} -> "VAZIO"

C24_Witness ==
    /\ op = "send" /\ result = OK
    /\ lastCmd = "G"
    /\ read_sensors = <<"VAZIO", "PAREDE", "HUMANO">>
    /\ log[Len(log)] = LogLine("G", "VAZIO", "PAREDE", "HUMANO", carga)

\* the log lines that are not ALARM lines
CommandLines == {n \in 1..Len(log) : log[n][1] # "ALARM"}

\* C25: a command that succeeds through send_command appends exactly one
\* line to the log: the command, the three sensor readings of the state
\* after it and the cargo label of the state after it; a command that
\* fails appends nothing. So the log of an exploration is the LIGAR line
\* followed by one line for each successful command, in the order sent, and
\* a return adds one line for each of its commands that succeeded.
C25_OneLinePerSuccess ==
    /\ [][op' = "send" =>
            IF result' = OK
            THEN /\ Len(log') = Len(log) + 1
                 /\ SubSeq(log', 1, Len(log)) = log
                 /\ log'[Len(log')] =
                       <<lastCmd',
                         Reading(grid', Neighbour(pos', (dir' + 3) % 4)),
                         Reading(grid', Neighbour(pos', (dir' + 1) % 4)),
                         Reading(grid', Neighbour(pos', dir')),
                         IF carga' THEN "COM HUMANO" ELSE "SEM CARGA">>
            ELSE log' = log]_vars
    /\ [](/\ log[1][1] = "LIGAR"
          /\ log[1][5] = "SEM CARGA"
          /\ pc \in {"idle", "explore"} =>
                /\ Len(log) = 1 + Len(memory)
                /\ \A n \in 1..Len(memory) : log[n + 1][1] = memory[n]
          /\ caller = "execute_return" =>
                /\ Cardinality(CommandLines) = 1 + Len(memory) + Len(executed)
                /\ \A n \in 1..Len(executed) :
                      log[1 + Len(memory) + n][1] = executed[n])

C25_Witness ==
    /\ pc = "explore"
    /\ op = "send" /\ result # OK
    /\ Len(log) = 4
    /\ log[2][1] = "A"
    /\ log[3] = LogLine("P", "PAREDE", "PAREDE", "VAZIO", TRUE)
    /\ log[4][1] = "G"

\* the planner stands at a dead end and looks for an alternative
DeadEndSearch ==
    /\ pc = "plan"
    /\ i <= Len(remaining_steps)
    /\ remaining_steps[i] = "A"
    /\ AllWalls(read_sensors)
    /\ ~find_alt_mocked

\* C26: the search for an alternative path ends after a fixed number of
\* rotation probes, three at most, whatever the remaining steps and the
\* sensor readings: it builds one candidate for each of 1, 2 and 3
\* rotations and returns; the planner calls it once, in a single step that
\* ends the planning, and never comes back to it.
C26_SearchBounded ==
    /\ [](/\ Len(find_alternative_candidates) <= 3
          /\ \A n \in 1..Len(find_alternative_candidates) :
                /\ Len(find_alternative_candidates[n]) = n + 1
                /\ Occurrences(find_alternative_candidates[n], "G") = n
                /\ find_alternative_candidates[n][n + 1] = "A"
          /\ \A n \in 1..Len(remaining_steps) + 1 :
                find_alternative_path(SubSeq(remaining_steps, n, Len(remaining_steps)))
                    = Some(<<"G", "A">>))
    /\ [][DeadEndSearch =>
            /\ pc' = "exec"
            /\ return_commands' = return_commands \o <<"G", "A">>
            /\ UNCHANGED <<pos, dir, carga, grid, log, i>>]_vars
    /\ [][pc' = "plan" => pc \in {"explore", "plan"}]_vars

C26_Witness ==
    /\ pc = "exec"
    /\ op = "plan"
    /\ ~find_alt_mocked
    /\ carga
    /\ AllWalls(read_sensors)
    /\ Len(reads) > 0
    /\ AllWalls(reads[Len(reads)][4])
    /\ Len(return_commands) >= 2
    /\ SubSeq(return_commands, Len(return_commands) - 1, Len(return_commands)) = <<"G", "A">>

\* the pocket map once the victim has been picked up
PocketAfterPickup == [MapPocket EXCEPT ![2][2] = "."]

\* the commands cmds applied from the initial pose of the pocket map
FromPocketEntry(cmds) ==
    replay(MapPocket, RobotState(<<0, 1>>, 1, FALSE), cmds, 1)

\* C27: on the map XXX / E@X / XXX, from the entry (0,1) facing East:
\* Pickup succeeds, carga becomes true and cell (1,1) becomes '.'; an Eject
\* right after it fails for not facing the exit; an Eject after one Turn
\* fails the same way; after two Turns (heading West, front cell outside
\* the grid) Eject succeeds; after three Turns it fails again.
C27_PocketScenario ==
    /\ find_entry(MapPocket) = <<0, 1>> /\ initial_dir(MapPocket) = 1
    /\ FromPocketEntry(<<"P">>)
          = Outcome(OK, RobotState(<<0, 1>>, 1, TRUE), PocketAfterPickup)
    /\ FromPocketEntry(<<"P", "E">>).err = EjectNaoDeFrente
    /\ FromPocketEntry(<<"P", "G", "E">>).err = EjectNaoDeFrente
    /\ FromPocketEntry(<<"P", "G", "G", "E">>)
          = Outcome(OK, RobotState(<<0, 1>>, 3, FALSE), PocketAfterPickup)
    /\ FromPocketEntry(<<"P", "G", "G", "G", "E">>).err = EjectNaoDeFrente
    /\ grid = PocketAfterPickup /\ pc = "explore" /\ op = "send" /\ lastCmd = "E" =>
          /\ memory \in {<<"P">>, <<"P", "G">>, <<"P", "G", "G", "G">>} =>
                result = EjectNaoDeFrente /\ carga
          /\ memory = <<"P", "G", "G">> => FALSE
          /\ memory = <<"P", "G", "G", "E">> =>
                /\ log[5] = LogLine("E", "PAREDE", "PAREDE", "VAZIO", FALSE)
                /\ ~carga
                /\ pos = <<0, 1>> /\ dir = 3
                /\ ~is_position_valid(grid, Front)

C27_Witness ==
    /\ grid = PocketAfterPickup
    /\ pc = "explore"
    /\ memory = <<"P", "G", "G", "E">>
    /\ op = "send" /\ lastCmd = "E" /\ result = OK
    /\ ~carga
    /\ Len(log) = 5

\* C28: an Advance whose front cell is outside the grid always succeeds
\* and puts the robot on that cell, with or without cargo, from a cell
\* inside the grid and from a cell already outside it; heading, cargo and
\* grid stay as they were.
C28_AdvanceOutside ==
    /\ [](\A d \in 0..3 : \A c \in BOOLEAN :
            ~is_position_valid(grid, Neighbour(pos, d)) =>
                advance(grid, RobotState(pos, d, c))
                    = Outcome(OK, RobotState(Neighbour(pos, d), d, c), grid))
    /\ [][Sent("A") /\ ~is_position_valid(grid, Neighbour(pos, dir)) =>
            /\ result' = OK
            /\ pos' = Neighbour(pos, dir)
            /\ UNCHANGED <<dir, carga, grid>>]_vars

C28_Witness ==
    /\ op = "send" /\ lastCmd = "A" /\ result = OK
    /\ carga
    /\ Len(log) = 3
    /\ log[2][1] = "A"
    /\ log[3][1] = "A"
    /\ ~is_position_valid(grid, pos)
    /\ ~is_position_valid(grid, Neighbour(pos, (dir + 2) % 4))

\* C29: an Advance into the victim's cell while carga is true succeeds: the
\* robot moves onto the cell, carga stays true, heading and grid stay as
\* they were, so the cell still holds '@'; without cargo the same Advance
\* fails with AtropelamentoError.
C29_AdvanceOverVictim ==
    [][Sent("A") /\ FrontIs("@") =>
        IF carga
        THEN /\ result' = OK
             /\ pos' = Front
             /\ carga'
             /\ UNCHANGED <<dir, grid>>
             /\ Cell(grid', pos') = "@"
        ELSE /\ result' = AtropelamentoError
             /\ UNCHANGED <<pos, dir, carga, grid>>]_vars

C29_Witness ==
    /\ op = "send" /\ lastCmd = "A" /\ result = OK
    /\ Len(log) = 2
    /\ log[2][1] = "A"
    /\ log[2][5] = "COM HUMANO"
    /\ carga
    /\ is_position_valid(grid, pos)
    /\ Cell(grid, pos) = "@"
    /\ CountCells(grid, "@") = 1

\* symbols that are none of the four commands
InvalidSymbols == {"Z", "a", "g", "p", "e", "", "AG", "LIGAR", "ALARM"}

\* C30: a command symbol other than A, G, P, E is rejected with the
\* invalid-command error, whatever the state: position, heading, cargo,
\* grid, log and history stay exactly as they were.
C30_InvalidCommand ==
    /\ [](\A c \in InvalidSymbols :
            apply_command(grid, RobotState(pos, dir, carga), c)
                = Outcome(ComandoInvalido, RobotState(pos, dir, carga), grid))
    /\ [][op' = "send" /\ lastCmd' \notin {"A", "G", "P", "E"} =>
            /\ result' = ComandoInvalido
            /\ UNCHANGED <<pos, dir, carga, grid, log, memory>>]_vars
    /\ [][op' = "send" /\ result' = ComandoInvalido =>
            lastCmd' \notin {"A", "G", "P", "E"}]_vars

C30_Witness ==
    /\ op = "send" /\ lastCmd = "Z" /\ result = ComandoInvalido
    /\ carga
    /\ Len(log) = 3
    /\ Len(memory) = 2
    /\ pc = "explore"

\* the position of the 'E' of map g, found cell by cell
EntryOf(g) ==
    CHOOSE p \in (0..Len(g[1]) - 1) \X (0..Len(g) - 1) : g[p[2] + 1][p[1] + 1] = "E"

\* the heading the claim gives a robot built on map g
HeadingOf(g) ==
    IF EntryOf(g)[2] = 0 THEN 2
    ELSE IF EntryOf(g)[2] = Len(g) - 1 THEN 0
    ELSE IF EntryOf(g)[1] = 0 THEN 1
    ELSE 3

\* C31: a robot built on a valid map stands at the entry without cargo,
\* with the heading of the first border the entry lies on in the order
\* top (South), bottom (North), left (East), right (West); the first line
\* of the log is the LIGAR line, with the readings of that pose and the
\* label SEM CARGA, and it stays the first line.
C31_Construction ==
    /\ op = "init" =>
          /\ pos = EntryOf(grid)
          /\ ~carga
          /\ dir = HeadingOf(grid)
          /\ log = << <<"LIGAR",
                        Reading(grid, Neighbour(EntryOf(grid), (HeadingOf(grid) + 3) % 4)),
                        Reading(grid, Neighbour(EntryOf(grid), (HeadingOf(grid) + 1) % 4)),
                        Reading(grid, Neighbour(EntryOf(grid), HeadingOf(grid))),
                        "SEM CARGA">> >>
    /\ Len(log) >= 1
    /\ log[1][1] = "LIGAR"
    /\ log[1][5] = "SEM CARGA"

C31_Witness ==
    /\ op = "init"
    /\ grid = MapBottomRight
    /\ pos = <<1, 1>>
    /\ dir = 0
    /\ log = <<LogLine("LIGAR", "PAREDE", "VAZIO", "VAZIO", FALSE)>>

\* the lines of the log written by a successful command c
LinesOf(c) == {n \in 1..Len(log) : log[n][1] = c}

\* victims in the grid plus the one the robot carries
VictimCount == CountCells(grid, "@") + (IF carga THEN 1 ELSE 0)

\* C36: victim conservation. The number of Victim cells plus one for a
\* loaded robot is 1 until an Eject has succeeded and 0 from then on; a
\* Pickup succeeds at most once, an Eject succeeds at most once, and a
\* Pickup never succeeds while the robot is loaded.
C36_VictimConservation ==
    /\ [](/\ VictimCount = (IF LinesOf("E") = {} THEN 1 ELSE 0)
          /\ Cardinality(LinesOf("P")) <= 1
          /\ Cardinality(LinesOf("E")) <= 1)
    /\ [][(Sent("P") /\ result' = OK) =>
             ~carga /\ carga' /\ CountCells(grid, "@") = 1 /\ CountCells(grid', "@") = 0]_vars
    /\ [][(Sent("E") /\ result' = OK) =>
             carga /\ ~carga' /\ LinesOf("E") = {} /\ grid' = grid]_vars

C36_Witness ==
    /\ op = "send" /\ lastCmd = "E" /\ result = OK
    /\ Cardinality(LinesOf("P")) = 1
    /\ Cardinality(LinesOf("E")) = 1
    /\ VictimCount = 0

\* the planner stands before an inverted Advance with PAREDE on three sides
AllWallsBeforeAdvance ==
    /\ pc = "plan"
    /\ i <= Len(remaining_steps)
    /\ remaining_steps[i] = "A"
    /\ AllWalls(read_sensors)

\* C37: with the search as written plan_return never raises
\* BecoPosColetaError: whatever the remaining steps and the readings,
\* _find_alternative_path returns the one-rotation probe G, A and never
\* None, so the all-walls iteration always ends the plan with G, A.
C37_SearchNeverFails ==
    /\ [](/\ \A n \in 1..Len(remaining_steps) + 1 :
                find_alternative_path(SubSeq(remaining_steps, n, Len(remaining_steps)))
                    = Some(<<"G", "A">>)
          /\ ~find_alt_mocked =>
                /\ op # "raise"
                /\ status # BecoStatus
                /\ \A n \in 1..Len(log) : log[n] # AlarmLine)
    /\ [][AllWallsBeforeAdvance /\ ~find_alt_mocked =>
             /\ pc' = "exec"
             /\ return_commands' = return_commands \o <<"G", "A">>
             /\ log' = log]_vars

C37_Witness ==
    /\ ~find_alt_mocked
    /\ pc = "exec"
    /\ k = 1
    /\ carga
    /\ Len(reads) > 0
    /\ AllWalls(reads[Len(reads)][4])
    /\ Len(return_commands) >= 2
    /\ SubSeq(return_commands, Len(return_commands) - 1, Len(return_commands)) = <<"G", "A">>

\* index of the first Advance of s, Len(s) + 1 when it has none
FirstAdvance(s) ==
    IF \E n \in 1..Len(s) : s[n] = "A"
    THEN CHOOSE n \in 1..Len(s) : s[n] = "A" /\ \A m \in 1..n - 1 : s[m] # "A"
    ELSE Len(s) + 1

\* plan_return has just returned its plan to a loaded robot
PlannedWithCargo == pc = "exec" /\ op = "plan" /\ k = 1 /\ carga

\* C38: a plan made with cargo while the sensors read PAREDE on the three
\* sides is the inverted commands before the first Advance of the inversion
\* followed by the alternative path, the rest of the inversion being
\* dropped; a plan made while the sensors do not read all PAREDE is the
\* whole inversion.
C38_PlanWithCargo ==
    PlannedWithCargo =>
        LET inverted == invert_commands(memory)
            first == FirstAdvance(inverted)
        IN  IF AllWalls(read_sensors)
            THEN return_commands =
                     SubSeq(inverted, 1, first - 1)
                         \o find_alternative_path(SubSeq(inverted, first, Len(inverted))).path
            ELSE return_commands = inverted

C38_Witness ==
    /\ PlannedWithCargo
    /\ AllWalls(read_sensors)
    /\ FirstAdvance(invert_commands(memory)) > 1
    /\ Len(return_commands) < Len(invert_commands(memory))
    /\ return_commands =
           SubSeq(invert_commands(memory), 1, FirstAdvance(invert_commands(memory)) - 1)
               \o <<"G", "A">>

\* C39: in every state reached from the initial pose by commands sent
\* through send_command, the cell the robot stands on is neither a wall nor
\* the victim: inside the grid it is the entry or a free cell.
C39_NeverOnWallOrVictim ==
    /\ \/ pos[1] < 0 \/ pos[1] >= Len(grid[1])
       \/ pos[2] < 0 \/ pos[2] >= Len(grid)
       \/ grid[pos[2] + 1][pos[1] + 1] \in {".", "E"}
    /\ \A n \in 1..Len(grid) : \A m \in 1..Len(grid[n]) :
          grid[n][m] \in {"X", "@"} => pos # <<m - 1, n - 1>>

C39_Witness ==
    /\ op = "send" /\ lastCmd = "A" /\ result = OK
    /\ pos # find_entry(grid)
    /\ is_position_valid(grid, pos)
    /\ Cell(grid, pos) = "."
    /\ get_sensor_readings(grid, pos, dir) = <<"PAREDE", "PAREDE", "HUMANO">>

\* C32: run lets no failure escape. A command of run that fails ends run
\* at once with the state ERROR and a status that begins with ERRO (or
\* BECO_POS_COLETA for the planner's alarm) and carries the failure; a run
\* in which nothing failed ends in the state COMPLETED with the status
\* MISSAO_COMPLETADA or HUMANO_NAO_ENCONTRADO; until run returns there is
\* no status.
C32_NoFailureEscapes ==
    /\ [](/\ pc = "end" =>
               \/ /\ state = "ERROR"
                  /\ result # OK
                  /\ status[1] \in {"ERRO", "BECO_POS_COLETA"}
                  /\ status[3] = result
               \/ /\ state = "COMPLETED"
                  /\ result = OK
                  /\ status \in {MissaoCompletada, HumanoNaoEncontrado}
          /\ pc # "end" =>
               /\ status = Running
               /\ state \notin {"ERROR", "COMPLETED"}
               /\ result = OK)
    /\ [][(op' = "send" /\ result' # OK) =>
             /\ pc' = "end"
             /\ state' = "ERROR"
             /\ status' = IF pc = "exec"
                          THEN ErroRetornoStatus(result')
                          ELSE ErroStatus(result')]_vars

C32_Witness ==
    /\ pc = "end"
    /\ state = "ERROR"
    /\ lastCmd = "A"
    /\ result = AtropelamentoError
    /\ status = ErroStatus(AtropelamentoError)

\* C33, as stated: when run has found the victim in front, picked it up and
\* executed the whole retrace without a failure, the final Eject succeeds:
\* run returns MISSAO_COMPLETADA, the robot is unloaded and stands on the
\* entry.
C33_MissionCompletes ==
    pc = "end" /\ lastCmd = "E" =>
        /\ result = OK
        /\ status = MissaoCompletada
        /\ state = "COMPLETED"
        /\ ~carga
        /\ pos = find_entry(grid)

\* C34: run terminates on every map. The exploration loop makes at most 50
\* iterations of at most 3 commands each, so with the Pickup the history
\* never holds more than 151 commands; the plan made from it is finite (at
\* most five commands for each command of the history), and under fair
\* scheduling run reaches its return.
C34_RunTerminates ==
    /\ [](/\ steps <= 50
          /\ Len(memory) <= 3 * steps + 3
          /\ Len(memory) <= 151
          /\ Len(remaining_steps) <= 5 * Len(memory)
          /\ Len(return_commands) <= 5 * Len(memory)
          /\ k <= Len(return_commands) + 1)
    /\ <>[](pc = "end")

C34_Witness ==
    /\ pc = "end"
    /\ steps = 50
    /\ status = HumanoNaoEncontrado
    /\ Len(memory) = 100
    /\ ~is_position_valid(grid, pos)

\* C35, as stated: every command the controller sends while it explores
\* succeeds; in particular no Advance is sent with a wall or the victim in
\* the cell in front.
C35_ExplorationNeverFails ==
    [][(op' = "send" /\ state = "EXPLORING") =>
          /\ result' = OK
          /\ lastCmd' = "A" => ~FrontIs("X") /\ ~FrontIs("@")]_vars

\* this step records command c in both histories
Recorded(c) ==
    /\ memory' = Append(memory, c)
    /\ returner_memory' = Append(returner_memory, c)

\* C40: at every point of run the controller's history and the Returner's
\* are equal and hold, in the order sent, exactly the commands that
\* succeeded while the state was EXPLORING: the Pickup is in it, the
\* commands of the return and the final Eject are not, and a command that
\* failed is never recorded.
C40_HistoriesAgree ==
    /\ [](/\ memory = returner_memory
          /\ Len(log) >= 1 + Len(memory)
          /\ \A n \in 1..Len(memory) : log[n + 1][1] = memory[n]
          /\ \A n \in 1..Len(memory) : memory[n] # "E"
          /\ pc \in {"picked", "plan", "exec", "eject"} =>
                memory # <<>> /\ memory[Len(memory)] = "P")
    /\ [][/\ (op' = "send" /\ result' = OK /\ state = "EXPLORING") => Recorded(lastCmd')
          /\ (op' = "send" /\ (result' # OK \/ state # "EXPLORING")) =>
                UNCHANGED <<memory, returner_memory>>
          /\ op' # "send" => UNCHANGED <<memory, returner_memory>>]_vars

C40_Witness ==
    /\ pc = "end"
    /\ status = MissaoCompletada
    /\ memory = <<"G", "A", "P">>
    /\ returner_memory = <<"G", "A", "P">>
    /\ Len(log) = 1 + 3 + 8 + 1
    /\ log[Len(log)][1] = "E"

============================================================================
